---- MODULE Spec2Model ----
(***************************************************************************)
(* Arbitrary-precision integer calculator: the LargeInt value type         *)
(* (src/src/bigint.rs) and the arithmetic built on it (src/src/lib.rs).    *)
(*                                                                         *)
(* A LargeInt is a record [sign, digits]; digits is a sequence of cells,   *)
(* least-significant first (index 1 is the units digit).  Texts are        *)
(* sequences of one-character strings.                                     *)
(***************************************************************************)
EXTENDS Integers, Sequences, FiniteSets, TLC

VARIABLES
    op,      \* the entry point being called
    txt,     \* the text handed to parse
    a, b,    \* the operands of the call
    pc,      \* position in the entry point's code
    out,     \* the values returned: <<>>, <<v>> or <<quotient, remainder>>
    shown,   \* the text returned by to_string
    div,     \* frame of divide_and_modulo
    mul,     \* frame of multiply: the shared result buffer and its passes
    exp,     \* frame of exponentiate
    fact     \* frame of factorial: the sequence being reduced

vars == <<op, txt, a, b, pc, out, shown, div, mul, exp, fact>>

-----------------------------------------------------------------------------
(* Bounds of the model *)

MaxAbs == 25        \* operands of add, subtract, divide_and_modulo: -MaxAbs..MaxAbs
MaxText == 3        \* length of the texts handed to parse
MaxMul == 20        \* operands of multiply: -MaxMul..MaxMul
MaxBase == 11       \* base of exponentiate: -MaxBase..MaxBase
MaxExp == 3         \* exponent of exponentiate: 0..MaxExp
MaxFact == 5        \* argument of factorial: -MaxFact..MaxFact
MaxCount == 12      \* cap on the per-position subtraction counter

Base == 10          \* digits are decimal
Two == 2            \* the divisor exponentiate halves the exponent by

-----------------------------------------------------------------------------
(* Characters and texts *)

DigitChars == <<"0", "1", "2", "3", "4", "5", "6", "7", "8", "9">>

is_digit(c) == \E d \in 1..Base : DigitChars[d] = c

to_digit(c) == (CHOOSE d \in 1..Base : DigitChars[d] = c) - 1

from_digit(d) == DigitChars[d + 1]

Reverse(s) == [i \in 1..Len(s) |-> s[Len(s) + 1 - i]]

RECURSIVE trim_start(_)
trim_start(s) ==
    IF Len(s) > 0 /\ s[1] = " " THEN trim_start(Tail(s)) ELSE s

RECURSIVE trim_end(_)
trim_end(s) ==
    IF Len(s) > 0 /\ s[Len(s)] = " " THEN trim_end(SubSeq(s, 1, Len(s) - 1)) ELSE s

trim(s) == trim_end(trim_start(s))

starts_with_minus(s) == Len(s) > 0 /\ s[1] = "-"

-----------------------------------------------------------------------------
(* The LargeInt value type *)

RECURSIVE strip_leading_zeros(_)
strip_leading_zeros(digits) ==
    IF Len(digits) > 1 /\ digits[Len(digits)] = 0
    THEN strip_leading_zeros(SubSeq(digits, 1, Len(digits) - 1))
    ELSE digits

new(sign, digits) ==
    LET ds == strip_leading_zeros(digits)
    IN  IF Len(ds) = 1 /\ ds[1] = 0
        THEN [sign |-> 1, digits |-> ds]
        ELSE [sign |-> sign, digits |-> ds]

\* normalize(): called by lib.rs, defined nowhere in the sources; the glossary's
\* "Normalization" is what LargeInt::new does.
normalize(v) == new(v.sign, v.digits)

zero == new(1, <<0>>)

one == new(1, <<1>>)

is_zero(v) == Len(v.digits) = 1 /\ v.digits[1] = 0

parse(input) ==
    LET t == trim(input)
        sign == IF starts_with_minus(t) THEN -1 ELSE 1
        kept == SelectSeq(t, is_digit)
        digits == Reverse([i \in 1..Len(kept) |-> to_digit(kept[i])])
    IN  new(sign, digits)

\* char::from_digit(d, 10).unwrap() panics on a cell above 9
to_string_panics(v) == \E i \in 1..Len(v.digits) : v.digits[i] >= Base

to_string(v) ==
    LET ds == Reverse(v.digits)
        body == [i \in 1..Len(ds) |-> from_digit(ds[i])]
    IN  IF v.sign = -1 THEN <<"-">> \o body ELSE body

RECURSIVE compare_from(_, _, _)
compare_from(x, y, i) ==
    IF i = 0 THEN "Equal"
    ELSE IF x[i] # y[i] THEN (IF x[i] < y[i] THEN "Less" ELSE "Greater")
    ELSE compare_from(x, y, i - 1)

compare_abs(x, y) ==
    IF Len(x.digits) # Len(y.digits)
    THEN (IF Len(x.digits) < Len(y.digits) THEN "Less" ELSE "Greater")
    ELSE compare_from(x.digits, y.digits, Len(x.digits))

pad_to(digits, n) == [i \in 1..n |-> IF i <= Len(digits) THEN digits[i] ELSE 0]

pad_equal_lengths(x, y) ==
    LET max_len == IF Len(x.digits) >= Len(y.digits) THEN Len(x.digits) ELSE Len(y.digits)
    IN  <<pad_to(x.digits, max_len), pad_to(y.digits, max_len)>>

RECURSIVE add_digits(_, _, _, _)
add_digits(xp, yp, i, carry) ==
    IF i > Len(xp)
    THEN (IF carry > 0 THEN <<carry>> ELSE <<>>)
    ELSE LET sum == xp[i] + yp[i] + carry
         IN  <<sum % Base>> \o add_digits(xp, yp, i + 1, sum \div Base)

add_same_sign(x, y) ==
    LET p == pad_equal_lengths(x, y)
    IN  new(x.sign, add_digits(p[1], p[2], 1, 0))

RECURSIVE subtract_digits(_, _, _, _)
subtract_digits(xp, yp, i, borrow) ==
    IF i > Len(xp)
    THEN <<>>
    ELSE LET diff == xp[i] - yp[i] - borrow
         IN  IF diff < 0
             THEN <<diff + Base>> \o subtract_digits(xp, yp, i + 1, 1)
             ELSE <<diff>> \o subtract_digits(xp, yp, i + 1, 0)

\* subtract_same_sign taking the sign of the subtrahend instead of self's
subtract_same_sign_sign_of_other(x, y) ==
    LET p == pad_equal_lengths(x, y)
    IN  new(y.sign, subtract_digits(p[1], p[2], 1, 0))

subtract_same_sign(x, y) ==
    LET p == pad_equal_lengths(x, y)
    IN  new(x.sign, subtract_digits(p[1], p[2], 1, 0))

subtract_abs(x, y) ==
    LET c == compare_abs(x, y)
    IN  IF c = "Equal" THEN zero
        ELSE IF c = "Greater" THEN subtract_same_sign(x, y)
        ELSE LET result == subtract_same_sign(y, x)
             IN  [result EXCEPT !.sign = -result.sign]

add(x, y) ==
    IF x.sign = 1 /\ y.sign = 1 THEN add_same_sign(x, y)
    ELSE IF x.sign = -1 /\ y.sign = -1
         THEN [add_same_sign(x, y) EXCEPT !.sign = -1]
    ELSE IF x.sign = 1 /\ y.sign = -1 THEN subtract_abs(x, y)
    ELSE [subtract_abs(y, x) EXCEPT !.sign = -1]

subtract(x, y) ==
    IF x.sign = 1 /\ y.sign = 1 THEN subtract_abs(x, y)
    ELSE IF x.sign = -1 /\ y.sign = -1
         THEN LET result == subtract_abs(y, x)
              IN  [result EXCEPT !.sign = -result.sign]
    ELSE IF x.sign = 1 /\ y.sign = -1 THEN add_same_sign(x, y)
    ELSE [add_same_sign(x, y) EXCEPT !.sign = -1]

-----------------------------------------------------------------------------
(* Operands handed to the entry points: every one is produced by parse, by  *)
(* the constructors, or by add and subtract applied to parsed values         *)

RECURSIVE usize_to_string(_)
usize_to_string(n) ==
    IF n < Base THEN <<from_digit(n)>>
    ELSE usize_to_string(n \div Base) \o <<from_digit(n % Base)>>

Numeral(n) == IF n < 0 THEN <<"-">> \o usize_to_string(-n) ELSE usize_to_string(n)

Alphabet == {"-", " ", "a", "0", "7"}

Texts == UNION {[1..n -> Alphabet] : n \in 0..MaxText}

ScenarioTexts == {<<"-", "1", "2", "3">>, <<"1", "2", "3">>, <<"4", "5", "6">>}

Operands == {parse(Numeral(n)) : n \in -MaxAbs..MaxAbs} \cup {parse(t) : t \in ScenarioTexts}

ZeroDivisors ==
    {zero, parse(<<"0">>), parse(<<>>), parse(<<"a", "b", "c">>), parse(<<"-">>)}
        \cup {add(x, subtract(zero, x)) : x \in Operands}

Divisors == Operands \cup ZeroDivisors

MulOperands == {parse(Numeral(n)) : n \in -MaxMul..MaxMul}

Bases == {parse(Numeral(n)) : n \in -MaxBase..MaxBase}

Exponents == {parse(Numeral(n)) : n \in 0..MaxExp} \cup {parse(<<>>)}

FactArgs == {parse(Numeral(n)) : n \in -MaxFact..MaxFact}

\* the entry points that run on the calling thread alone
SequentialOps == {"parse", "add", "subtract", "divide"}

\* the entry points that fan out on the worker pool, and what is built on them
ParallelOps == {"multiply", "exponentiate", "factorial"}

-----------------------------------------------------------------------------
(* Frames *)

NoDiv == [at |-> "idle", a |-> zero, b |-> zero, quotient |-> <<>>,
          remainder |-> zero, k |-> 0, count |-> 0]

NoMul == [at |-> "idle", a |-> zero, b |-> zero, result |-> <<>>, pass |-> <<>>]

NoExp == [result |-> zero, base |-> zero, exp |-> zero]

NoFact == [items |-> <<>>, k |-> 0]

Start(ops) ==
    /\ op \in ops
    /\ pc = "start"
    /\ out = <<>>
    /\ shown = <<>>
    /\ div = NoDiv
    /\ mul = NoMul
    /\ exp = NoExp
    /\ fact = NoFact
    /\ txt \in (IF op = "parse" THEN Texts ELSE {<<>>})
    /\ a \in (CASE op = "parse" -> {zero}
                [] op \in {"add", "subtract", "divide"} -> Operands
                [] op = "multiply" -> MulOperands
                [] op = "exponentiate" -> Bases
                [] op = "factorial" -> FactArgs)
    /\ b \in (CASE op \in {"parse", "factorial"} -> {zero}
                [] op \in {"add", "subtract"} -> Operands
                [] op = "divide" -> Divisors
                [] op = "multiply" -> MulOperands
                [] op = "exponentiate" -> Exponents)

-----------------------------------------------------------------------------
(* parse and to_string *)

Parse ==
    /\ op = "parse" /\ pc = "start"
    /\ out' = <<parse(txt)>>
    /\ pc' = "parsed"
    /\ UNCHANGED <<op, txt, a, b, shown, div, mul, exp, fact>>

Format ==
    /\ op = "parse" /\ pc = "parsed"
    /\ IF to_string_panics(out[1])
       THEN pc' = "panic" /\ shown' = shown
       ELSE pc' = "done" /\ shown' = to_string(out[1])
    /\ UNCHANGED <<op, txt, a, b, out, div, mul, exp, fact>>

(* add and subtract *)

Add ==
    /\ op = "add" /\ pc = "start"
    /\ out' = <<add(a, b)>>
    /\ pc' = "done"
    /\ UNCHANGED <<op, txt, a, b, shown, div, mul, exp, fact>>

Subtract ==
    /\ op = "subtract" /\ pc = "start"
    /\ out' = <<subtract(a, b)>>
    /\ pc' = "done"
    /\ UNCHANGED <<op, txt, a, b, shown, div, mul, exp, fact>>

-----------------------------------------------------------------------------
(* divide_and_modulo: one step per digit brought down, per subtraction of    *)
(* the inner loop, and per quotient digit pushed                             *)

U8 == 256

div_enter(x, y) ==
    [at |-> "digit", a |-> x, b |-> y, quotient |-> <<>>,
     remainder |-> zero, k |-> 0, count |-> 0]

div_finished(d) == d.at = "digit" /\ d.k = Len(d.a.digits)

\* quotient.reverse(): the digits were pushed most-significant first
div_result(d) == <<new(d.a.sign * d.b.sign, Reverse(d.quotient)), d.remainder>>

DivideCall ==
    /\ op = "divide" /\ pc = "start"
    /\ IF is_zero(b)
       THEN pc' = "panic" /\ div' = div
       ELSE pc' = "div" /\ div' = div_enter(a, b)
    /\ UNCHANGED <<op, txt, a, b, out, shown, mul, exp, fact>>

DivBringDown ==
    /\ div.at = "digit" /\ div.k < Len(div.a.digits)
    /\ LET digit == div.a.digits[Len(div.a.digits) - div.k]
           r == div.remainder
       IN  div' = [div EXCEPT
                     !.remainder = normalize([r EXCEPT !.digits = <<digit>> \o r.digits]),
                     !.count = 0,
                     !.at = "while"]
    /\ UNCHANGED <<op, txt, a, b, pc, out, shown, mul, exp, fact>>

DivSubtract ==
    /\ div.at = "while"
    /\ compare_abs(div.remainder, div.b) # "Less"
    /\ div.count < MaxCount
    /\ div' = [div EXCEPT
                 !.remainder = subtract_same_sign(div.remainder, div.b),
                 !.count = div.count + 1]
    /\ UNCHANGED <<op, txt, a, b, pc, out, shown, mul, exp, fact>>

DivPush ==
    /\ div.at = "while"
    /\ compare_abs(div.remainder, div.b) = "Less"
    /\ div' = [div EXCEPT
                 !.quotient = Append(div.quotient, div.count % U8),
                 !.k = div.k + 1,
                 !.count = 0,
                 !.at = "digit"]
    /\ UNCHANGED <<op, txt, a, b, pc, out, shown, mul, exp, fact>>

DivideReturn ==
    /\ op = "divide" /\ pc = "div"
    /\ div_finished(div)
    /\ out' = div_result(div)
    /\ pc' = "done"
    /\ div' = [div EXCEPT !.at = "returned"]
    /\ UNCHANGED <<op, txt, a, b, shown, mul, exp, fact>>

-----------------------------------------------------------------------------
(* multiply: the passes over the digits of a run on the worker pool, each a  *)
(* sequence of reads and writes of the shared result buffer.  Pass i is the  *)
(* closure called with index i - 1; cell result[n] is result[n - 1] of the   *)
(* code.                                                                     *)
(* The cells are u8 in the code; within the bounds of this model no cell     *)
(* and no temp comes near 2^8, so the arithmetic is written unbounded.       *)

mul_enter(x, y) ==
    [at |-> "run", a |-> x, b |-> y,
     result |-> [n \in 1..(Len(x.digits) + Len(y.digits)) |-> 0],
     pass |-> [i \in 1..Len(x.digits) |->
                 [at |-> IF Len(y.digits) = 0 THEN "done" ELSE "read",
                  j |-> 1, carry |-> 0, temp |-> 0]]]

mul_finished(m) == m.at = "run" /\ \A i \in 1..Len(m.pass) : m.pass[i].at = "done"

mul_product(m) == normalize(new(m.a.sign * m.b.sign, m.result))

\* let temp = result[i + j] + da * db + carry: the read of the cell
PassRead(i) ==
    /\ mul.at = "run" /\ mul.pass[i].at = "read"
    /\ LET p == mul.pass[i]
           temp == mul.result[i + p.j - 1] + mul.a.digits[i] * mul.b.digits[p.j] + p.carry
       IN  mul' = [mul EXCEPT !.pass[i] = [p EXCEPT !.temp = temp, !.at = "write"]]
    /\ UNCHANGED <<op, txt, a, b, pc, out, shown, div, exp, fact>>

\* result[i + j] = temp % 10; carry = temp / 10: the write of the cell
PassWrite(i) ==
    /\ mul.at = "run" /\ mul.pass[i].at = "write"
    /\ LET p == mul.pass[i]
           carry == p.temp \div Base
           last == p.j = Len(mul.b.digits)
       IN  mul' = [mul EXCEPT
                     !.result[i + p.j - 1] = p.temp % Base,
                     !.pass[i] = [at |-> IF ~last THEN "read"
                                         ELSE IF carry > 0 THEN "carry_read" ELSE "done",
                                  j |-> IF last THEN p.j ELSE p.j + 1,
                                  carry |-> IF last /\ carry = 0 THEN 0 ELSE carry,
                                  temp |-> 0]]
    /\ UNCHANGED <<op, txt, a, b, pc, out, shown, div, exp, fact>>

\* result[i + b.digits.len()] += carry: its read ...
PassCarryRead(i) ==
    /\ mul.at = "run" /\ mul.pass[i].at = "carry_read"
    /\ LET p == mul.pass[i]
       IN  mul' = [mul EXCEPT !.pass[i] =
                     [p EXCEPT !.temp = mul.result[i + Len(mul.b.digits)] + p.carry,
                               !.at = "carry_write"]]
    /\ UNCHANGED <<op, txt, a, b, pc, out, shown, div, exp, fact>>

\* ... and its write
PassCarryWrite(i) ==
    /\ mul.at = "run" /\ mul.pass[i].at = "carry_write"
    /\ LET p == mul.pass[i]
       IN  mul' = [mul EXCEPT
                     !.result[i + Len(mul.b.digits)] = p.temp,
                     !.pass[i] = [at |-> "done", j |-> p.j, carry |-> 0, temp |-> 0]]
    /\ UNCHANGED <<op, txt, a, b, pc, out, shown, div, exp, fact>>

MultiplyCall ==
    /\ op = "multiply" /\ pc = "start"
    /\ mul' = mul_enter(a, b)
    /\ pc' = "mul"
    /\ UNCHANGED <<op, txt, a, b, out, shown, div, exp, fact>>

MultiplyReturn ==
    /\ op = "multiply" /\ pc = "mul"
    /\ mul_finished(mul)
    /\ out' = <<mul_product(mul)>>
    /\ pc' = "done"
    /\ mul' = [mul EXCEPT !.at = "returned"]
    /\ UNCHANGED <<op, txt, a, b, shown, div, exp, fact>>

-----------------------------------------------------------------------------
(* exponentiate: binary exponentiation over multiply and divide_and_modulo   *)

ExponentiateCall ==
    /\ op = "exponentiate" /\ pc = "start"
    /\ IF is_zero(b)
       THEN out' = <<one>> /\ pc' = "done" /\ exp' = exp
       ELSE out' = out /\ pc' = "exp_loop"
            /\ exp' = [result |-> one, base |-> a, exp |-> b]
    /\ UNCHANGED <<op, txt, a, b, shown, div, mul, fact>>

\* while !exp.is_zero() fails: return result
ExponentiateReturn ==
    /\ pc = "exp_loop"
    /\ is_zero(exp.exp)
    /\ out' = <<exp.result>>
    /\ pc' = "done"
    /\ UNCHANGED <<op, txt, a, b, shown, div, mul, exp, fact>>

\* exp.digits[0] % 2 == 1: result = multiply(&result, &base)
ExpOdd ==
    /\ pc = "exp_loop"
    /\ ~is_zero(exp.exp)
    /\ Len(exp.exp.digits) > 0 /\ exp.exp.digits[1] % Two = 1
    /\ mul' = mul_enter(exp.result, exp.base)
    /\ pc' = "exp_accumulate"
    /\ UNCHANGED <<op, txt, a, b, out, shown, div, exp, fact>>

ExpAccumulated ==
    /\ pc = "exp_accumulate"
    /\ mul_finished(mul)
    /\ exp' = [exp EXCEPT !.result = mul_product(mul)]
    /\ mul' = NoMul
    /\ pc' = "exp_square"
    /\ UNCHANGED <<op, txt, a, b, out, shown, div, fact>>

ExpEven ==
    /\ pc = "exp_loop"
    /\ ~is_zero(exp.exp)
    /\ Len(exp.exp.digits) > 0 /\ exp.exp.digits[1] % Two # 1
    /\ pc' = "exp_square"
    /\ UNCHANGED <<op, txt, a, b, out, shown, div, mul, exp, fact>>

\* exp.digits[0] on an empty digit vector: index out of bounds
ExpIndexPanic ==
    /\ pc = "exp_loop"
    /\ ~is_zero(exp.exp)
    /\ Len(exp.exp.digits) = 0
    /\ pc' = "panic"
    /\ UNCHANGED <<op, txt, a, b, out, shown, div, mul, exp, fact>>

\* base = multiply(&base, &base)
ExpSquare ==
    /\ pc = "exp_square"
    /\ mul' = mul_enter(exp.base, exp.base)
    /\ pc' = "exp_squaring"
    /\ UNCHANGED <<op, txt, a, b, out, shown, div, exp, fact>>

\* exp = divide_and_modulo(&exp, &LargeInt::new(1, vec![2])).0: the call
ExpSquared ==
    /\ pc = "exp_squaring"
    /\ mul_finished(mul)
    /\ exp' = [exp EXCEPT !.base = mul_product(mul)]
    /\ mul' = NoMul
    /\ LET two == new(1, <<Two>>)
       IN  IF is_zero(two)
           THEN pc' = "panic" /\ div' = div
           ELSE pc' = "exp_halve" /\ div' = div_enter(exp.exp, two)
    /\ UNCHANGED <<op, txt, a, b, out, shown, fact>>

ExpHalved ==
    /\ pc = "exp_halve"
    /\ div_finished(div)
    /\ exp' = [exp EXCEPT !.exp = div_result(div)[1]]
    /\ div' = NoDiv
    /\ pc' = "exp_loop"
    /\ UNCHANGED <<op, txt, a, b, out, shown, mul, fact>>

-----------------------------------------------------------------------------
(* factorial: the range [1..n] reduced with multiply on the worker pool.     *)
(* The reduction cuts the range into consecutive chunks; each chunk is       *)
(* folded left to right starting from the identity one, and the results of   *)
(* neighbouring finished chunks are combined.  An item with acc = FALSE is   *)
(* not yet consumed; one with acc = TRUE is the accumulator of a chunk.      *)

\* n.to_string().parse::<usize>(): fails on a text that is not a numeral
parse_usize_fails(t) == Len(t) = 0 \/ \E i \in 1..Len(t) : ~is_digit(t[i])

RECURSIVE parse_usize(_)
parse_usize(t) ==
    IF Len(t) = 0 THEN 0
    ELSE parse_usize(SubSeq(t, 1, Len(t) - 1)) * Base + to_digit(t[Len(t)])

FactorialCall ==
    /\ op = "factorial" /\ pc = "start"
    /\ IF is_zero(a)
       THEN out' = <<one>> /\ pc' = "done" /\ fact' = fact
       ELSE IF a.sign = -1
       THEN out' = out /\ pc' = "panic" /\ fact' = fact
       ELSE IF to_string_panics(a) \/ parse_usize_fails(to_string(a))
       THEN out' = out /\ pc' = "panic" /\ fact' = fact
       ELSE /\ out' = out
            /\ pc' = "fact_reduce"
            /\ fact' = [items |-> [x \in 1..parse_usize(to_string(a)) |->
                                     [val |-> parse(usize_to_string(x)), acc |-> FALSE]],
                        k |-> 0]
    /\ UNCHANGED <<op, txt, a, b, shown, div, mul, exp>>

\* a chunk starts at item k: op(identity(), item)
FactSeed(k) ==
    /\ pc = "fact_reduce"
    /\ ~fact.items[k].acc
    /\ mul' = mul_enter(one, fact.items[k].val)
    /\ fact' = [fact EXCEPT !.k = k]
    /\ pc' = "fact_seeding"
    /\ UNCHANGED <<op, txt, a, b, out, shown, div, exp>>

FactSeeded ==
    /\ pc = "fact_seeding"
    /\ mul_finished(mul)
    /\ fact' = [items |-> [fact.items EXCEPT ![fact.k] = [val |-> mul_product(mul), acc |-> TRUE]],
                k |-> 0]
    /\ mul' = NoMul
    /\ pc' = "fact_reduce"
    /\ UNCHANGED <<op, txt, a, b, out, shown, div, exp>>

\* the chunk whose accumulator is at k consumes its next item: op(acc, x)
FactFold(k) ==
    /\ pc = "fact_reduce"
    /\ k + 1 <= Len(fact.items)
    /\ fact.items[k].acc /\ ~fact.items[k + 1].acc
    /\ mul' = mul_enter(fact.items[k].val, fact.items[k + 1].val)
    /\ fact' = [fact EXCEPT !.k = k]
    /\ pc' = "fact_merging"
    /\ UNCHANGED <<op, txt, a, b, out, shown, div, exp>>

\* two neighbouring finished chunks are combined: op(left, right)
FactCombine(k) ==
    /\ pc = "fact_reduce"
    /\ k + 1 <= Len(fact.items)
    /\ fact.items[k].acc /\ fact.items[k + 1].acc
    /\ k + 2 <= Len(fact.items) => fact.items[k + 2].acc
    /\ mul' = mul_enter(fact.items[k].val, fact.items[k + 1].val)
    /\ fact' = [fact EXCEPT !.k = k]
    /\ pc' = "fact_merging"
    /\ UNCHANGED <<op, txt, a, b, out, shown, div, exp>>

FactMerged ==
    /\ pc = "fact_merging"
    /\ mul_finished(mul)
    /\ LET k == fact.k
           merged == [val |-> mul_product(mul), acc |-> TRUE]
       IN  fact' = [items |-> SubSeq(fact.items, 1, k - 1) \o <<merged>>
                                \o SubSeq(fact.items, k + 2, Len(fact.items)),
                    k |-> 0]
    /\ mul' = NoMul
    /\ pc' = "fact_reduce"
    /\ UNCHANGED <<op, txt, a, b, out, shown, div, exp>>

FactorialReturn ==
    /\ pc = "fact_reduce"
    /\ Len(fact.items) = 1 /\ fact.items[1].acc
    /\ out' = <<fact.items[1].val>>
    /\ pc' = "done"
    /\ UNCHANGED <<op, txt, a, b, shown, div, mul, exp, fact>>

-----------------------------------------------------------------------------

(* The sequential entry points: parse, to_string, add, subtract,            *)
(* divide_and_modulo                                                         *)

Init == Start(SequentialOps)

Next ==
    \/ Parse
    \/ Format
    \/ Add
    \/ Subtract
    \/ DivideCall
    \/ DivBringDown
    \/ DivSubtract
    \/ DivPush
    \/ DivideReturn

Spec == Init /\ [][Next]_vars

(* The entry points that use the worker pool: multiply, and exponentiate and *)
(* factorial built on it                                                     *)

InitPar == Start(ParallelOps)

NextPar ==
    \/ MultiplyCall
    \/ \E i \in 1..Len(mul.pass) : PassRead(i)
    \/ \E i \in 1..Len(mul.pass) : PassWrite(i)
    \/ \E i \in 1..Len(mul.pass) : PassCarryRead(i)
    \/ \E i \in 1..Len(mul.pass) : PassCarryWrite(i)
    \/ MultiplyReturn
    \/ ExponentiateCall
    \/ ExponentiateReturn
    \/ ExpOdd
    \/ ExpAccumulated
    \/ ExpEven
    \/ ExpIndexPanic
    \/ ExpSquare
    \/ ExpSquared
    \/ ExpHalved
    \/ DivBringDown
    \/ DivSubtract
    \/ DivPush
    \/ FactorialCall
    \/ \E k \in 1..Len(fact.items) : FactSeed(k)
    \/ FactSeeded
    \/ \E k \in 1..Len(fact.items) : FactFold(k)
    \/ \E k \in 1..Len(fact.items) : FactCombine(k)
    \/ FactMerged
    \/ FactorialReturn

SpecPar == InitPar /\ [][NextPar]_vars

-----------------------------------------------------------------------------
(* What a LargeInt denotes, and the representation invariant *)

RECURSIVE digits_value(_)
digits_value(ds) ==
    IF Len(ds) = 0 THEN 0 ELSE ds[1] + Base * digits_value(Tail(ds))

Val(v) == v.sign * digits_value(v.digits)

Abs(n) == IF n < 0 THEN -n ELSE n

Normalized(v) ==
    /\ v.sign \in {1, -1}
    /\ Len(v.digits) >= 1
    /\ \A i \in 1..Len(v.digits) : v.digits[i] \in 0..(Base - 1)
    /\ Len(v.digits) > 1 => v.digits[Len(v.digits)] # 0
    /\ v.digits = <<0>> => v.sign = 1

\* v is the one normalized LargeInt denoting n
Denotes(v, n) == Normalized(v) /\ Val(v) = n

RECURSIVE Power(_, _)
Power(x, e) == IF e = 0 THEN 1 ELSE x * Power(x, e - 1)

RECURSIVE Factorial(_)
Factorial(n) == IF n = 0 THEN 1 ELSE n * Factorial(n - 1)

HasDigit(t) == \E i \in 1..Len(t) : is_digit(t[i])

\* the first character of t that is not a space is '-'
LeadingMinus(t) ==
    \E i \in 1..Len(t) : t[i] = "-" /\ \A j \in 1..(i - 1) : t[j] = " "

-----------------------------------------------------------------------------
(* Claims *)

\* C1: add(a, b) on normalized operands returns the normalized LargeInt denoting
\* a + b, in every sign pairing and magnitude ordering.
C1_AddDenotesSum ==
    (op = "add" /\ pc = "done" /\ Normalized(a) /\ Normalized(b))
        => Denotes(out[1], Val(a) + Val(b))

\* C2: subtract(a, b) on normalized operands returns the normalized LargeInt
\* denoting a - b; for operands of the same sign the result's sign is negative
\* exactly when a < b; for operands of different signs the result has a's sign
\* and magnitude |a| + |b|.
C2_SubtractDenotesDifference ==
    (op = "subtract" /\ pc = "done" /\ Normalized(a) /\ Normalized(b))
        => /\ Denotes(out[1], Val(a) - Val(b))
           /\ a.sign = b.sign => (out[1].sign = -1 <=> Val(a) < Val(b))
           /\ a.sign # b.sign => /\ out[1].sign = a.sign
                                 /\ Abs(Val(out[1])) = Abs(Val(a)) + Abs(Val(b))

\* C3: every LargeInt returned by parse, add, subtract, multiply,
\* divide_and_modulo, exponentiate or factorial on parsed operands is
\* normalized: digits non-empty and in 0..9, no most-significant zero unless
\* the digits are [0], and sign positive when the digits are [0].
C3_RepresentationInvariant ==
    (Normalized(a) /\ Normalized(b))
        => \A i \in 1..Len(out) : Normalized(out[i])

\* C4: under every order and interleaving of the passes over the shared result
\* buffer, multiply(a, b) returns the same value, and that value denotes the
\* product a * b.
C4_MultiplyIsProduct ==
    (op = "multiply" /\ pc = "done") => Val(out[1]) = Val(a) * Val(b)

\* C5: division identity: with (q, r) = divide_and_modulo(a, b) and b nonzero,
\* q * b + r is the integer a, for a and b of either sign.
C5_DivisionIdentity ==
    (op = "divide" /\ pc = "done" /\ Normalized(a) /\ Normalized(b))
        => Val(out[1]) * Val(b) + Val(out[2]) = Val(a)

\* C6: divide_and_modulo(a, b) with a divisor denoting zero, however produced,
\* fails at once: it panics before the digit loop and returns nothing.
C6_ZeroDivisorFails ==
    (op = "divide" /\ Val(b) = 0 /\ pc # "start")
        => pc = "panic" /\ div.at = "idle" /\ out = <<>>

\* C7: parse never fails; a text without a decimal digit parses to the canonical
\* zero (sign positive, digits [0]), for which is_zero holds and to_string gives
\* "0"; a parsed nonzero value is negative iff the trimmed text starts with '-'.
C7_ParseMalformedIsZero ==
    (op = "parse" /\ pc # "start")
        => /\ pc # "panic"
           /\ ~HasDigit(txt) => /\ out[1] = [sign |-> 1, digits |-> <<0>>]
                                /\ is_zero(out[1])
                                /\ pc = "done" => shown = <<"0">>
           /\ Val(out[1]) # 0 => (out[1].sign = -1 <=> LeadingMinus(txt))

\* C8: add(a, b) and add(b, a) return the same sign and the same digits.
C8_AddCommutes ==
    (op = "add" /\ pc = "done") => out[1] = add(b, a)

\* C9: exponentiate(x, e), e normalized and non-negative, does not fail and
\* returns a LargeInt denoting x^e; so exponentiate(x, 0) denotes 1 and
\* exponentiate(x, 1) denotes x.
C9_ExponentiateIsPower ==
    (op = "exponentiate" /\ Normalized(b))
        => /\ pc # "panic"
           /\ pc = "done" => Val(out[1]) = Power(Val(a), Val(b))

\* C10: factorial(n) fails without a value for negative n, returns one for zero,
\* and returns a LargeInt denoting n! for positive n, whatever the grouping and
\* order of the parallel reduction.
C10_FactorialIsProduct ==
    op = "factorial"
        => /\ Val(a) < 0 => (pc \in {"start", "panic"} /\ out = <<>>)
           /\ Val(a) >= 0 => pc # "panic"
           /\ (pc = "done" /\ Val(a) = 0) => out[1] = one
           /\ pc = "done" => Val(out[1]) = Factorial(Val(a))

\* a call of divide_and_modulo on normalized operands that passed the zero check
DividingNormalized ==
    /\ op = "divide" /\ pc \in {"div", "done"}
    /\ Normalized(a) /\ Normalized(b)

\* C11: in divide_and_modulo(a, b), a and b normalized and b nonzero, at the end
\* of every digit position the running remainder is normalized, non-negative
\* and smaller than |b|; the inner loop subtracts at most 9 times per position
\* (it never runs on: a step is always possible until the call returns), every
\* quotient digit pushed is in 0..9, one digit is pushed per position of a, and
\* the returned remainder r satisfies 0 <= r < |b| whatever the signs of a and b.
C11_DivisionLoopInvariant ==
    DividingNormalized
        => /\ Val(b) # 0
           /\ div.count <= Base - 1
           /\ div.k <= Len(a.digits) /\ Len(div.quotient) = div.k
           /\ \A i \in 1..Len(div.quotient) : div.quotient[i] \in 0..(Base - 1)
           /\ Normalized(div.remainder) /\ div.remainder.sign = 1
           /\ div.at = "while"
                => Val(div.remainder) < (Base - div.count) * Abs(Val(b))
           /\ div.at \in {"digit", "returned"}
                => Val(div.remainder) < Abs(Val(b))
           /\ pc = "div"
                => ENABLED (DivBringDown \/ DivSubtract \/ DivPush \/ DivideReturn)
           /\ pc = "done"
                => /\ div.k = Len(a.digits)
                   /\ Normalized(out[2])
                   /\ 0 <= Val(out[2]) /\ Val(out[2]) < Abs(Val(b))

\* a negative two-digit dividend and a negative divisor, a position that took
\* nine subtractions, and a nonzero remainder returned
C11_Witness ==
    /\ DividingNormalized /\ pc = "done"
    /\ a.sign = -1 /\ b.sign = -1 /\ Len(a.digits) = 2
    /\ \E i \in 1..Len(div.quotient) : div.quotient[i] = Base - 1
    /\ Val(out[2]) > 0

====
